---------------------------- MODULE Spec2Model ----------------------------
(***************************************************************************)
(* Model of src/src/06-objects-tasks.js: the cssSelectorBuilder object.    *)
(*                                                                         *)
(* The heap maps every object to its OWN fields.  cssSelectorBuilder (the  *)
(* root) owns all five data fields; every fragment is made by              *)
(* Object.create(cssSelectorBuilder), so it starts with no own field and   *)
(* reads every field it does not own from the root (prototype chain).      *)
(*                                                                         *)
(* An object is named by the calls that produced it (its provenance): the  *)
(* root is the chain with no part.  Two objects produced by the same calls *)
(* share a name; the second allocation replaces the first.                 *)
(***************************************************************************)
EXTENDS Integers, Sequences, FiniteSets, TLC

VARIABLES heap, last

vars == <<heap, last>>

---------------------------------------------------------------------------
(* Bounds and input alphabets *)

MaxObjs == 2

MaxChain == 6

Values == {"a", "b"}

Combinators == {"+", " "}

---------------------------------------------------------------------------
(* Object names *)

ROOT == [base |-> "root", parts |-> <<>>]

NoRef == [base |-> "none"]

FragKey(this, cat, value) ==
  [this EXCEPT !.parts = Append(this.parts, <<cat, value>>)]

CombKey(selector1, combinator, selector2) ==
  [base |-> "combine", of |-> <<selector1, combinator, selector2>>, parts |-> <<>>]

---------------------------------------------------------------------------
(* Heap primitives *)

Create(h, k) == (k :> <<>>) @@ h

Get(h, k, f) == IF f \in DOMAIN h[k] THEN h[k][f] ELSE h[ROOT][f]

Set(h, k, f, v) == [h EXCEPT ![k] = (f :> v) @@ h[k]]

OrderError == "Selector parts should be arranged in the following order: element, id, class, attribute, pseudo-class, pseudo-element"

DupError == "Element, id and pseudo-element should not occur more then one time inside the selector"

Throw(h, e) == [heap |-> h, outcome |-> e, result |-> NoRef, ret |-> ""]

ReturnObj(h, k) == [heap |-> h, outcome |-> "ok", result |-> k, ret |-> ""]

ReturnStr(h, s) == [heap |-> h, outcome |-> "ok", result |-> NoRef, ret |-> s]

---------------------------------------------------------------------------
(* The object literal and its methods *)

cssSelectorBuilder ==
  [output |-> "", isElementCalled |-> FALSE, isIdCalled |-> FALSE,
   isPseudoElementCalled |-> FALSE, orderChecker |-> 0]

(* element without line 133: the new fragment never records the element *)
element_noFlag(h, this, value) ==
  LET innerObj == FragKey(this, 0, value)
      h1 == Create(h, innerObj)
  IN IF Get(h1, this, "orderChecker") > 0 THEN Throw(h, OrderError)
     ELSE LET h2 == Set(h1, innerObj, "orderChecker", 0)
          IN IF Get(h2, this, "isElementCalled") THEN Throw(h, DupError)
             ELSE LET h4 == Set(h2, innerObj, "output",
                                Get(h2, innerObj, "output") \o Get(h2, this, "output") \o value)
                  IN ReturnObj(h4, innerObj)

(* element with line 125 written "const innerObj = this": the receiver is extended in place *)
element_inPlace(h, this, value) ==
  IF Get(h, this, "orderChecker") > 0 THEN Throw(h, OrderError)
  ELSE LET h2 == Set(h, this, "orderChecker", 0)
       IN IF Get(h2, this, "isElementCalled") THEN Throw(h, DupError)
          ELSE LET h3 == Set(h2, this, "isElementCalled", TRUE)
                   h4 == Set(h3, this, "output",
                             Get(h3, this, "output") \o Get(h3, this, "output") \o value)
               IN ReturnObj(h4, this)

(* element with line 133 written "cssSelectorBuilder.isElementCalled = true" *)
element_flagOnRoot(h, this, value) ==
  LET innerObj == FragKey(this, 0, value)
      h1 == Create(h, innerObj)
  IN IF Get(h1, this, "orderChecker") > 0 THEN Throw(h, OrderError)
     ELSE LET h2 == Set(h1, innerObj, "orderChecker", 0)
          IN IF Get(h2, this, "isElementCalled") THEN Throw(h, DupError)
             ELSE LET h3 == Set(h2, ROOT, "isElementCalled", TRUE)
                      h4 == Set(h3, innerObj, "output",
                                Get(h3, innerObj, "output") \o Get(h3, this, "output") \o value)
                  IN ReturnObj(h4, innerObj)

(* element with the order test of line 126 written on the text: this.output !== '' *)
element_checksOutput(h, this, value) ==
  LET innerObj == FragKey(this, 0, value)
      h1 == Create(h, innerObj)
  IN IF Get(h1, this, "output") # "" THEN Throw(h, OrderError)
     ELSE LET h2 == Set(h1, innerObj, "orderChecker", 0)
          IN IF Get(h2, this, "isElementCalled") THEN Throw(h, DupError)
             ELSE LET h3 == Set(h2, innerObj, "isElementCalled", TRUE)
                      h4 == Set(h3, innerObj, "output",
                                Get(h3, innerObj, "output") \o Get(h3, this, "output") \o value)
                  IN ReturnObj(h4, innerObj)

element(h, this, value) ==
  LET innerObj == FragKey(this, 0, value)
      h1 == Create(h, innerObj)
  IN IF Get(h1, this, "orderChecker") > 0 THEN Throw(h, OrderError)
     ELSE LET h2 == Set(h1, innerObj, "orderChecker", 0)
          IN IF Get(h2, this, "isElementCalled") THEN Throw(h, DupError)
             ELSE LET h3 == Set(h2, innerObj, "isElementCalled", TRUE)
                      h4 == Set(h3, innerObj, "output",
                                Get(h3, innerObj, "output") \o Get(h3, this, "output") \o value)
                  IN ReturnObj(h4, innerObj)

(* id with the order test of line 140 written >= 1 *)
id_offByOne(h, this, value) ==
  LET innerObj == FragKey(this, 1, value)
      h1 == Create(h, innerObj)
  IN IF Get(h1, this, "orderChecker") >= 1 THEN Throw(h, OrderError)
     ELSE LET h2 == Set(h1, innerObj, "orderChecker", 1)
          IN IF Get(h2, this, "isIdCalled") THEN Throw(h, DupError)
             ELSE LET h3 == Set(h2, innerObj, "isIdCalled", TRUE)
                      h4 == Set(h3, innerObj, "output",
                                Get(h3, innerObj, "output") \o Get(h3, this, "output") \o "#" \o value)
                  IN ReturnObj(h4, innerObj)

(* id without line 147: the new fragment never records the id *)
id_noFlag(h, this, value) ==
  LET innerObj == FragKey(this, 1, value)
      h1 == Create(h, innerObj)
  IN IF Get(h1, this, "orderChecker") > 1 THEN Throw(h, OrderError)
     ELSE LET h2 == Set(h1, innerObj, "orderChecker", 1)
          IN IF Get(h2, this, "isIdCalled") THEN Throw(h, DupError)
             ELSE LET h4 == Set(h2, innerObj, "output",
                                Get(h2, innerObj, "output") \o Get(h2, this, "output") \o "#" \o value)
                  IN ReturnObj(h4, innerObj)

(* id that records the stage on the shared object before the order test:
   cssSelectorBuilder.orderChecker = 1 ahead of line 140 *)
id_stampsRoot(h, this, value) ==
  LET innerObj == FragKey(this, 1, value)
      h0 == Set(h, ROOT, "orderChecker", 1)
      h1 == Create(h0, innerObj)
  IN IF Get(h, this, "orderChecker") > 1 THEN Throw(h0, OrderError)
     ELSE LET h2 == Set(h1, innerObj, "orderChecker", 1)
          IN IF Get(h2, this, "isIdCalled") THEN Throw(h0, DupError)
             ELSE LET h3 == Set(h2, innerObj, "isIdCalled", TRUE)
                      h4 == Set(h3, innerObj, "output",
                                Get(h3, innerObj, "output") \o Get(h3, this, "output") \o "#" \o value)
                  IN ReturnObj(h4, innerObj)

(* id that also carries the receiver's element flag over:
   innerObj.isElementCalled = this.isElementCalled *)
id_copiesFlag(h, this, value) ==
  LET innerObj == FragKey(this, 1, value)
      h1 == Create(h, innerObj)
  IN IF Get(h1, this, "orderChecker") > 1 THEN Throw(h, OrderError)
     ELSE LET h2 == Set(h1, innerObj, "orderChecker", 1)
          IN IF Get(h2, this, "isIdCalled") THEN Throw(h, DupError)
             ELSE LET h3 == Set(Set(h2, innerObj, "isIdCalled", TRUE),
                                innerObj, "isElementCalled", Get(h2, this, "isElementCalled"))
                      h4 == Set(h3, innerObj, "output",
                                Get(h3, innerObj, "output") \o Get(h3, this, "output") \o "#" \o value)
                  IN ReturnObj(h4, innerObj)

id(h, this, value) ==
  LET innerObj == FragKey(this, 1, value)
      h1 == Create(h, innerObj)
  IN IF Get(h1, this, "orderChecker") > 1 THEN Throw(h, OrderError)
     ELSE LET h2 == Set(h1, innerObj, "orderChecker", 1)
          IN IF Get(h2, this, "isIdCalled") THEN Throw(h, DupError)
             ELSE LET h3 == Set(h2, innerObj, "isIdCalled", TRUE)
                      h4 == Set(h3, innerObj, "output",
                                Get(h3, innerObj, "output") \o Get(h3, this, "output") \o "#" \o value)
                  IN ReturnObj(h4, innerObj)

(* class with the order test of line 154 written > 3 *)
class_wrongOrdinal(h, this, value) ==
  LET innerObj == FragKey(this, 2, value)
      h1 == Create(h, innerObj)
  IN IF Get(h1, this, "orderChecker") > 3 THEN Throw(h, OrderError)
     ELSE LET h2 == Set(h1, innerObj, "orderChecker", 2)
              h3 == Set(h2, innerObj, "output",
                        Get(h2, innerObj, "output") \o Get(h2, this, "output") \o "." \o value)
          IN ReturnObj(h3, innerObj)

class(h, this, value) ==
  LET innerObj == FragKey(this, 2, value)
      h1 == Create(h, innerObj)
  IN IF Get(h1, this, "orderChecker") > 2 THEN Throw(h, OrderError)
     ELSE LET h2 == Set(h1, innerObj, "orderChecker", 2)
              h3 == Set(h2, innerObj, "output",
                        Get(h2, innerObj, "output") \o Get(h2, this, "output") \o "." \o value)
          IN ReturnObj(h3, innerObj)

(* attr with the closing bracket of line 168 left out *)
attr_noClose(h, this, value) ==
  LET innerObj == FragKey(this, 3, value)
      h1 == Create(h, innerObj)
  IN IF Get(h1, this, "orderChecker") > 3 THEN Throw(h, OrderError)
     ELSE LET h2 == Set(h1, innerObj, "orderChecker", 3)
              h3 == Set(h2, innerObj, "output",
                        Get(h2, innerObj, "output") \o Get(h2, this, "output") \o "[" \o value)
          IN ReturnObj(h3, innerObj)

attr(h, this, value) ==
  LET innerObj == FragKey(this, 3, value)
      h1 == Create(h, innerObj)
  IN IF Get(h1, this, "orderChecker") > 3 THEN Throw(h, OrderError)
     ELSE LET h2 == Set(h1, innerObj, "orderChecker", 3)
              h3 == Set(h2, innerObj, "output",
                        Get(h2, innerObj, "output") \o Get(h2, this, "output") \o "[" \o value \o "]")
          IN ReturnObj(h3, innerObj)

pseudoClass(h, this, value) ==
  LET innerObj == FragKey(this, 4, value)
      h1 == Create(h, innerObj)
  IN IF Get(h1, this, "orderChecker") > 4 THEN Throw(h, OrderError)
     ELSE LET h2 == Set(h1, innerObj, "orderChecker", 4)
              h3 == Set(h2, innerObj, "output",
                        Get(h2, innerObj, "output") \o Get(h2, this, "output") \o ":" \o value)
          IN ReturnObj(h3, innerObj)

(* pseudoElement with line 191 written "cssSelectorBuilder.isPseudoElementCalled = true" *)
pseudoElement_flagOnRoot(h, this, value) ==
  LET innerObj == FragKey(this, 5, value)
      h1 == Create(h, innerObj)
  IN IF Get(h1, this, "orderChecker") > 5 THEN Throw(h, OrderError)
     ELSE LET h2 == Set(h1, innerObj, "orderChecker", 5)
          IN IF Get(h2, this, "isPseudoElementCalled") THEN Throw(h, DupError)
             ELSE LET h3 == Set(h2, ROOT, "isPseudoElementCalled", TRUE)
                      h4 == Set(h3, innerObj, "output",
                                Get(h3, innerObj, "output") \o Get(h3, this, "output") \o "::" \o value)
                  IN ReturnObj(h4, innerObj)

pseudoElement(h, this, value) ==
  LET innerObj == FragKey(this, 5, value)
      h1 == Create(h, innerObj)
  IN IF Get(h1, this, "orderChecker") > 5 THEN Throw(h, OrderError)
     ELSE LET h2 == Set(h1, innerObj, "orderChecker", 5)
          IN IF Get(h2, this, "isPseudoElementCalled") THEN Throw(h, DupError)
             ELSE LET h3 == Set(h2, innerObj, "isPseudoElementCalled", TRUE)
                      h4 == Set(h3, innerObj, "output",
                                Get(h3, innerObj, "output") \o Get(h3, this, "output") \o "::" \o value)
                  IN ReturnObj(h4, innerObj)

(* combine with the two spaces of line 198 left out *)
combine_noSpaces(h, selector1, combinator, selector2) ==
  LET innerObj == CombKey(selector1, combinator, selector2)
      h1 == Create(h, innerObj)
      h2 == Set(h1, innerObj, "output",
                Get(h1, selector1, "output") \o combinator \o Get(h1, selector2, "output"))
  IN ReturnObj(h2, innerObj)

(* combine that also closes the result: innerObj.orderChecker = 5 and the three flags set *)
combine_closed(h, selector1, combinator, selector2) ==
  LET innerObj == CombKey(selector1, combinator, selector2)
      h1 == Create(h, innerObj)
      h2 == Set(h1, innerObj, "output",
                Get(h1, selector1, "output") \o " " \o combinator \o " " \o Get(h1, selector2, "output"))
      h3 == Set(h2, innerObj, "orderChecker", 5)
      h4 == Set(h3, innerObj, "isPseudoElementCalled", TRUE)
  IN ReturnObj(h4, innerObj)

combine(h, selector1, combinator, selector2) ==
  LET innerObj == CombKey(selector1, combinator, selector2)
      h1 == Create(h, innerObj)
      h2 == Set(h1, innerObj, "output",
                Get(h1, selector1, "output") \o " " \o combinator \o " " \o Get(h1, selector2, "output"))
  IN ReturnObj(h2, innerObj)

(* stringify with lines 203-206 written on this instead of cssSelectorBuilder *)
stringify_resetsThis(h, this) ==
  LET h1 == Set(h, this, "orderChecker", 0)
      h2 == Set(h1, this, "isElementCalled", FALSE)
      h3 == Set(h2, this, "isIdCalled", FALSE)
      h4 == Set(h3, this, "isPseudoElementCalled", FALSE)
  IN ReturnStr(h4, Get(h4, this, "output"))

stringify(h, this) ==
  LET h1 == Set(h, ROOT, "orderChecker", 0)
      h2 == Set(h1, ROOT, "isElementCalled", FALSE)
      h3 == Set(h2, ROOT, "isIdCalled", FALSE)
      h4 == Set(h3, ROOT, "isPseudoElementCalled", FALSE)
  IN ReturnStr(h4, Get(h4, this, "output"))

---------------------------------------------------------------------------
(* Calls *)

Method(cat, h, this, value) ==
  CASE cat = 0 -> element(h, this, value)
    [] cat = 1 -> id(h, this, value)
    [] cat = 2 -> class(h, this, value)
    [] cat = 3 -> attr(h, this, value)
    [] cat = 4 -> pseudoClass(h, this, value)
    [] cat = 5 -> pseudoElement(h, this, value)

Refs == DOMAIN heap

Frags == Refs \ {ROOT}

(* The caller is between two statements: no call is being observed. *)
Idle ==
  [op |-> "none", cat |-> -1, this |-> ROOT, value |-> "",
   selector1 |-> NoRef, selector2 |-> NoRef,
   outcome |-> "ok", result |-> NoRef, ret |-> ""]

(* A call runs to its return or throw in one step; last is what the caller sees of it. *)
Call(op, cat, this, value, s1, s2, r) ==
  /\ heap' = r.heap
  /\ last' = [op |-> op, cat |-> cat, this |-> this, value |-> value,
              selector1 |-> s1, selector2 |-> s2,
              outcome |-> r.outcome, result |-> r.result, ret |-> r.ret]

Fits(r, n) == Cardinality(DOMAIN r.heap \ {ROOT}) <= n

InitHeap == (ROOT :> cssSelectorBuilder)

Init ==
  /\ heap = InitHeap
  /\ last = Idle

Element(this, value, n) ==
  /\ last = Idle
  /\ LET r == element(heap, this, value)
     IN Fits(r, n) /\ Call("element", 0, this, value, NoRef, NoRef, r)

Id(this, value, n) ==
  /\ last = Idle
  /\ LET r == id(heap, this, value)
     IN Fits(r, n) /\ Call("id", 1, this, value, NoRef, NoRef, r)

Class(this, value, n) ==
  /\ last = Idle
  /\ LET r == class(heap, this, value)
     IN Fits(r, n) /\ Call("class", 2, this, value, NoRef, NoRef, r)

Attr(this, value, n) ==
  /\ last = Idle
  /\ LET r == attr(heap, this, value)
     IN Fits(r, n) /\ Call("attr", 3, this, value, NoRef, NoRef, r)

PseudoClass(this, value, n) ==
  /\ last = Idle
  /\ LET r == pseudoClass(heap, this, value)
     IN Fits(r, n) /\ Call("pseudoClass", 4, this, value, NoRef, NoRef, r)

PseudoElement(this, value, n) ==
  /\ last = Idle
  /\ LET r == pseudoElement(heap, this, value)
     IN Fits(r, n) /\ Call("pseudoElement", 5, this, value, NoRef, NoRef, r)

Combine(this, selector1, combinator, selector2, n) ==
  /\ last = Idle
  /\ LET r == combine(heap, selector1, combinator, selector2)
     IN Fits(r, n) /\ Call("combine", -1, this, combinator, selector1, selector2, r)

Stringify(this) ==
  /\ last = Idle
  /\ LET r == stringify(heap, this)
     IN Call("stringify", -1, this, "", NoRef, NoRef, r)

(* The caller has taken the returned value or caught the Error and goes on to
   its next statement. *)
Proceed ==
  /\ last # Idle
  /\ last' = Idle
  /\ UNCHANGED heap

(* Any call on any object created so far. *)
Next ==
  \/ \E this \in Refs, value \in Values : Element(this, value, MaxObjs)
  \/ \E this \in Refs, value \in Values : Id(this, value, MaxObjs)
  \/ \E this \in Refs, value \in Values : Class(this, value, MaxObjs)
  \/ \E this \in Refs, value \in Values : Attr(this, value, MaxObjs)
  \/ \E this \in Refs, value \in Values : PseudoClass(this, value, MaxObjs)
  \/ \E this \in Refs, value \in Values : PseudoElement(this, value, MaxObjs)
  \/ \E selector1 \in Refs, selector2 \in Refs, combinator \in Combinators :
        Combine(ROOT, selector1, combinator, selector2, MaxObjs)
  \/ \E this \in Refs : Stringify(this)
  \/ Proceed

Spec == Init /\ [][Next]_vars

(* One fluent chain: every call is made on the fragment the chain has reached. *)
Tip == CHOOSE k \in Refs : \A j \in Refs : Len(j.parts) <= Len(k.parts)

NextChain ==
  \/ \E value \in Values : Element(Tip, value, MaxChain)
  \/ \E value \in Values : Id(Tip, value, MaxChain)
  \/ \E value \in Values : Class(Tip, value, MaxChain)
  \/ \E value \in Values : Attr(Tip, value, MaxChain)
  \/ \E value \in Values : PseudoClass(Tip, value, MaxChain)
  \/ \E value \in Values : PseudoElement(Tip, value, MaxChain)
  \/ Stringify(Tip)
  \/ Proceed

SpecChain == Init /\ [][NextChain]_vars

---------------------------------------------------------------------------
(* Vocabulary of the claims, read off the calls that produced a fragment *)

Fields == {"output", "isElementCalled", "isIdCalled", "isPseudoElementCalled", "orderChecker"}

Stage(k) == Get(heap, k, "orderChecker")

Text(k) == Get(heap, k, "output")

IsAppend == last.cat \in 0..5

Parent(k) == [k EXCEPT !.parts = SubSeq(k.parts, 1, Len(k.parts) - 1)]

LastCat(k) == k.parts[Len(k.parts)][1]

CountCat(parts, c) == Cardinality({i \in DOMAIN parts : parts[i][1] = c})

(* the most specific category appended so far; 0 when nothing was appended *)
MostSpecific(parts) ==
  IF parts = <<>> THEN 0
  ELSE CHOOSE c \in 0..5 : /\ \E i \in DOMAIN parts : parts[i][1] = c
                           /\ \A i \in DOMAIN parts : parts[i][1] <= c

ValidOrder(parts) ==
  /\ \A i \in DOMAIN parts : \A j \in DOMAIN parts : i < j => parts[i][1] <= parts[j][1]
  /\ \A c \in {0, 1, 5} : CountCat(parts, c) <= 1

Part(cat, value) ==
  CASE cat = 0 -> value
    [] cat = 1 -> "#" \o value
    [] cat = 2 -> "." \o value
    [] cat = 3 -> "[" \o value \o "]"
    [] cat = 4 -> ":" \o value
    [] cat = 5 -> "::" \o value

RECURSIVE Render(_)
Render(parts) ==
  IF parts = <<>> THEN ""
  ELSE Render(SubSeq(parts, 1, Len(parts) - 1)) \o Part(parts[Len(parts)][1], parts[Len(parts)][2])

---------------------------------------------------------------------------
(* C1: a chain of appends from the root whose categories come in the order
   element, id, class, attr, pseudoClass, pseudoElement (element, id and
   pseudoElement at most once) never fails, and stringify on the fragment it
   reaches returns the parts in call order, each behind its delimiter. *)
C1_ValidChainRenders ==
  /\ (IsAppend /\ last.this.base = "root"
        /\ ValidOrder(FragKey(last.this, last.cat, last.value).parts))
       => /\ last.outcome = "ok"
          /\ last.result = FragKey(last.this, last.cat, last.value)
          /\ last.result \in Refs
          /\ Text(last.result) = Render(last.result.parts)
  /\ (last.op = "stringify" /\ last.this.base = "root" /\ ValidOrder(last.this.parts))
       => /\ last.outcome = "ok"
          /\ last.ret = Render(last.this.parts)

C1_Witness ==
  /\ last.op = "stringify"
  /\ last.this.parts = << <<0, "a">>, <<1, "b">>, <<2, "a">>, <<3, "b">>, <<4, "a">>, <<5, "b">> >>
  /\ last.ret = "a#b.a[b]:a::b"

(* C2: an append of category c on a fragment reached by appends from the root
   fails with the order error exactly when c is below the most specific
   category already appended. *)
C2_OrderErrorIffBelowStage ==
  (IsAppend /\ last.this.base = "root")
    => (last.outcome = OrderError <=> last.cat < MostSpecific(last.this.parts))

C2_Witness ==
  /\ last.op = "id"
  /\ last.this.parts = << <<2, "a">> >>
  /\ last.value = "b"
  /\ last.outcome = OrderError

(* C3 as stated: a second element, id or pseudoElement on a chain that already
   holds one fails with the duplicate error, wherever the first one was. *)
C3_Original ==
  (IsAppend /\ last.cat \in {0, 1, 5} /\ last.this.base = "root"
     /\ CountCat(last.this.parts, last.cat) >= 1)
    => last.outcome = DupError

(* C3 amended: such a second append always fails; with the duplicate error when
   the receiver was itself produced by an append of that category, with the
   order error when another category was appended in between. *)
C3_DupOnlyWhenAdjacent ==
  (IsAppend /\ last.cat \in {0, 1, 5} /\ last.this.base = "root"
     /\ CountCat(last.this.parts, last.cat) >= 1)
    => /\ last.result = NoRef
       /\ last.outcome = IF LastCat(last.this) = last.cat THEN DupError ELSE OrderError

C3_Witness ==
  /\ last.op = "element"
  /\ last.this.parts = << <<0, "a">>, <<1, "b">> >>
  /\ last.outcome = OrderError

(* C4: no fragment reached by successful appends from the root holds two
   element parts, two id parts or two pseudoElement parts, and an attempt to
   add a second one raises an error and returns no fragment. *)
C4_AtMostOnce ==
  /\ \A k \in Refs : k.base = "root"
        => \A c \in {0, 1, 5} : CountCat(k.parts, c) <= 1
  /\ (IsAppend /\ last.cat \in {0, 1, 5} /\ last.this.base = "root"
        /\ CountCat(last.this.parts, last.cat) >= 1)
       => /\ last.outcome \in {OrderError, DupError}
          /\ last.result = NoRef
          /\ FragKey(last.this, last.cat, last.value) \notin Refs

C4_Witness ==
  /\ last.op = "pseudoElement"
  /\ last.this.parts = << <<0, "a">>, <<5, "b">> >>
  /\ last.outcome = DupError
  /\ last.result = NoRef

(* C5: combine(a, c, b) returns a new fragment whose text is a's text, a
   space, c, a space, b's text, whose stage is 0 and whose flags are false,
   whatever a and b are (combined fragments included), and leaves a and b as
   they were. *)
C5_CombineJoins ==
  [][ last'.op = "combine" =>
        LET a == last'.selector1
            b == last'.selector2
            r == last'.result
        IN /\ last'.outcome = "ok"
           /\ r \in DOMAIN heap'
           /\ r \notin {a, b}
           /\ Get(heap', r, "output")
                = Get(heap, a, "output") \o " " \o last'.value \o " " \o Get(heap, b, "output")
           /\ Get(heap', r, "orderChecker") = 0
           /\ ~Get(heap', r, "isElementCalled")
           /\ ~Get(heap', r, "isIdCalled")
           /\ ~Get(heap', r, "isPseudoElementCalled")
           /\ \A k \in {a, b} : \A f \in Fields : Get(heap', k, f) = Get(heap, k, f) ]_vars

C5_Witness ==
  /\ last.op = "combine"
  /\ last.selector1.parts = << <<1, "b">> >>
  /\ last.selector2 = last.selector1
  /\ last.value = " "
  /\ Text(last.result) = "#b   #b"

(* C6: stringify returns the text of the fragment it is called on and changes
   nothing: a second call returns the same string, and every append on the
   fragment has the outcome and the result it had before. *)
C6_StringifyPureRead ==
  [][ last'.op = "stringify" =>
        /\ last'.outcome = "ok"
        /\ last'.ret = Get(heap, last'.this, "output")
        /\ heap' = heap
        /\ stringify(heap', last'.this).ret = last'.ret
        /\ \A c \in 0..5 : \A v \in Values :
              Method(c, heap', last'.this, v) = Method(c, heap, last'.this, v) ]_vars

C6_Witness ==
  /\ last.op = "stringify"
  /\ last.this.parts = << <<1, "a">>, <<3, "b">> >>
  /\ last.ret = "#a[b]"
  /\ Stage(last.this) = 3
  /\ Get(heap, Parent(last.this), "isIdCalled")

(* C7: an object once created never changes: no call changes the own fields or
   the fields read through the prototype of any existing object, and a
   successful append returns an object other than its receiver. *)
C7_FragmentsImmutable ==
  [][ /\ \A k \in DOMAIN heap :
            /\ k \in DOMAIN heap'
            /\ heap'[k] = heap[k]
            /\ \A f \in Fields : Get(heap', k, f) = Get(heap, k, f)
      /\ (last'.cat \in 0..5 /\ last'.outcome = "ok")
            => /\ last'.result # last'.this
               /\ last'.result \in DOMAIN heap' ]_vars

C7_Witness ==
  /\ last.op = "class"
  /\ last.outcome = "ok"
  /\ last.this.parts = << <<0, "a">> >>
  /\ Text(last.this) = "a"
  /\ Text(last.result) = "a.b"
  /\ heap[last.this] = [orderChecker |-> 0, isElementCalled |-> TRUE, output |-> "a"]

(* C8 as stated: no append called on a fragment returned by combine produces a
   fragment. *)
C8_Original ==
  (IsAppend /\ last.this.base = "combine" /\ last.this.parts = <<>>)
    => /\ last.outcome # "ok"
       /\ last.result = NoRef

(* C8 amended: a fragment returned by combine has stage 0 and no flag set, so
   every append called on it succeeds and returns a new fragment whose text is
   the combined text followed by the part. *)
C8_CombinedAcceptsAppends ==
  /\ \A k \in Refs : (k.base = "combine" /\ k.parts = <<>>)
        => /\ Stage(k) = 0
           /\ ~Get(heap, k, "isElementCalled")
           /\ ~Get(heap, k, "isIdCalled")
           /\ ~Get(heap, k, "isPseudoElementCalled")
  /\ (IsAppend /\ last.this.base = "combine" /\ last.this.parts = <<>>)
        => /\ last.outcome = "ok"
           /\ last.result \in Refs
           /\ Text(last.result) = Text(last.this) \o Part(last.cat, last.value)
           /\ Stage(last.result) = last.cat

C8_Witness ==
  /\ last.op = "id"
  /\ last.this.base = "combine"
  /\ last.this.parts = <<>>
  /\ last.this.of = <<ROOT, "+", ROOT>>
  /\ last.outcome = "ok"
  /\ Text(last.this) = " + "
  /\ Text(last.result) = " + #b"

(* The heap that the calls which produced k leave when they run alone from h. *)
RECURSIVE Run(_, _)
Run(h, k) ==
  IF k = ROOT THEN h
  ELSE IF k.parts # <<>>
       THEN Method(LastCat(k), Run(h, Parent(k)), Parent(k), k.parts[Len(k.parts)][2]).heap
       ELSE combine(Run(Run(h, k.of[1]), k.of[3]), k.of[1], k.of[2], k.of[3]).heap

Alone(k) == Run(InitHeap, k)

(* C9: chains do not interfere.  Whatever calls were made on other objects in
   between, every fragment is what the calls that produced it build when they
   run alone, and every call returns or throws what it does when only the
   calls that produced its receiver (and its arguments) were made before. *)
C9_ChainsIndependent ==
  /\ \A k \in Refs : /\ k \in DOMAIN Alone(k)
                     /\ \A f \in Fields : Get(heap, k, f) = Get(Alone(k), k, f)
  /\ IsAppend =>
       LET r == Method(last.cat, Alone(last.this), last.this, last.value)
       IN /\ last.outcome = r.outcome
          /\ last.result = r.result
          /\ last.result # NoRef =>
               \A f \in Fields : Get(heap, last.result, f) = Get(r.heap, r.result, f)
  /\ last.op = "stringify" => last.ret = stringify(Alone(last.this), last.this).ret
  /\ last.op = "combine" =>
       LET r == combine(Run(Alone(last.selector1), last.selector2),
                        last.selector1, last.value, last.selector2)
       IN /\ last.outcome = r.outcome
          /\ last.result = r.result
          /\ Text(last.result) = Get(r.heap, r.result, "output")

(* two chains from the root, a stringify of the first before the second is
   extended: id('a'), then element('b') .. stringify .. element('b').class('a') *)
C9_Witness ==
  /\ last.op = "element"
  /\ last.this = ROOT
  /\ last.outcome = "ok"
  /\ \E k \in Frags : k.parts = << <<0, "a">> >> /\ k # last.result
  /\ Text(last.result) = "b"

(* C10: the stage of every fragment is in 0..5; the stage of a fragment made by
   an append is the ordinal of that append and is not below the stage of the
   fragment it was called on. *)
C10_StageMonotone ==
  /\ \A k \in Refs : Stage(k) \in 0..5
  /\ \A k \in Refs : k.parts # <<>>
        => /\ Parent(k) \in Refs
           /\ Stage(k) = LastCat(k)
           /\ Stage(k) >= Stage(Parent(k))
  /\ (IsAppend /\ last.outcome = "ok")
        => /\ Stage(last.result) = last.cat
           /\ Stage(last.result) >= Stage(last.this)

C10_Witness ==
  /\ last.op = "pseudoClass"
  /\ last.outcome = "ok"
  /\ Stage(last.this) = 3
  /\ Stage(last.result) = 4

FlagOf(c) ==
  CASE c = 0 -> "isElementCalled" [] c = 1 -> "isIdCalled" [] c = 5 -> "isPseudoElementCalled"

Flag(k, c) == Get(heap, k, FlagOf(c))

(* C11: the flags of a fragment made by an append of category c are those of
   the fragment it was called on, with the flag of c set; so a flag of a
   fragment is true exactly when its chain holds an append of that category. *)
C11_FlagsCopied ==
  \A k \in Refs : (k.base = "root" /\ k.parts # <<>> /\ Parent(k) \in Refs)
     => \A c \in {0, 1, 5} :
          /\ Flag(k, c) = (Flag(Parent(k), c) \/ LastCat(k) = c)
          /\ Flag(k, c) = (CountCat(k.parts, c) >= 1)

(* C12: an append that fails throws the order error or the duplicate error,
   returns no fragment and leaves the heap as it was: the receiver, every other
   fragment and cssSelectorBuilder. *)
C12_FailureChangesNothing ==
  [][ (last'.cat \in 0..5 /\ last'.outcome # "ok") =>
        /\ last'.outcome \in {OrderError, DupError}
        /\ last'.result = NoRef
        /\ heap' = heap
        /\ \A k \in DOMAIN heap : \A f \in Fields : Get(heap', k, f) = Get(heap, k, f) ]_vars

C12_Witness ==
  /\ last.op = "element"
  /\ last.this.parts = << <<0, "b">> >>
  /\ last.outcome = DupError
  /\ last.result = NoRef
  /\ heap[ROOT] = cssSelectorBuilder
  /\ Frags = {last.this}

Outcome(c, k, v) == Method(c, heap, k, v).outcome

(* C13: an append throws nothing but the order error and the duplicate error,
   and whether it does depends on its category and on the stage and flags of
   its receiver only: the method just called has the outcome it had on every
   object with the stage and flags of its receiver, whatever the text of that
   object, and with every value. *)
C13_OutcomeIgnoresValueAndText ==
  IsAppend =>
    /\ last.outcome \in {"ok", OrderError, DupError}
    /\ \A k \in Refs :
         (Stage(k) = Stage(last.this) /\ \A d \in {0, 1, 5} : Flag(k, d) = Flag(last.this, d))
           => \A v \in Values : Outcome(last.cat, k, v) = last.outcome

C13_Witness ==
  /\ last.op = "id"
  /\ last.value = "a"
  /\ last.this.parts = << <<2, "b">> >>
  /\ last.outcome = OrderError
  /\ \E k \in Frags : /\ k.parts = << <<2, "a">> >>
                      /\ Text(k) # Text(last.this)
                      /\ Stage(k) = Stage(last.this)
                      /\ Method(1, heap, k, "b").outcome = OrderError

(* C14: on a chain of successful appends that holds category c (element, id or
   pseudoElement), one more append of c throws the duplicate error if and only
   if the receiver was itself made by an append of c, and the order error in
   every other case; no receiver satisfies the order test and the occurrence
   test of one method together. *)
C14_ErrorByAdjacency ==
  /\ (IsAppend /\ last.cat \in {0, 1, 5} /\ last.this.base = "root"
        /\ CountCat(last.this.parts, last.cat) >= 1)
       => /\ (last.outcome = DupError <=> LastCat(last.this) = last.cat)
          /\ (last.outcome = OrderError <=> LastCat(last.this) # last.cat)
  /\ \A k \in Refs : \A c \in {0, 1, 5} : ~(Stage(k) > c /\ Flag(k, c))

C14_Witness ==
  /\ last.op = "id"
  /\ last.this.parts = << <<0, "a">>, <<1, "a">> >>
  /\ last.value = "b"
  /\ last.outcome = DupError

(* C15: cssSelectorBuilder keeps the fields it was loaded with through every
   call, failing ones included, so the four assignments of stringify change
   no value. *)
C15_RootConstant ==
  /\ heap[ROOT] = cssSelectorBuilder
  /\ \A k \in Refs : stringify(heap, k).heap = heap

C15_Witness ==
  /\ last.op = "stringify"
  /\ last.this.parts = << <<5, "a">> >>
  /\ Flag(last.this, 5)
  /\ ~Flag(ROOT, 5)
  /\ heap[ROOT] = cssSelectorBuilder

(* ---------------------------------------------------------------------- *)
(* Rectangle, getJSON and fromJSON (lines 23-60).                           *)
(* A JavaScript value is a record tagged by t; the finite numbers are the   *)
(* integers of Numbers, and -0 is not told from 0 (they are === and both    *)
(* print as "0").  An object is its prototype's name and its own            *)
(* properties in insertion order, as <<key, value>> pairs.  JSON text is a  *)
(* string, written and read character by character.                         *)
(* ---------------------------------------------------------------------- *)
MaxNum == 12

Numbers == (0 - MaxNum)..MaxNum

Num(n) == [t |-> "number", v |-> n]

NaN == [t |-> "NaN"]

Infinity == [t |-> "Infinity"]

NegInfinity == [t |-> "-Infinity"]

Null == [t |-> "null"]

Undefined == [t |-> "undefined"]

Str(s) == [t |-> "string", chars |-> s]

JSNumbers == {Num(n) : n \in Numbers} \cup {NaN, Infinity, NegInfinity}

(* ToNumber of the operands of * in line 26 *)
ToNumber(x) ==
  CASE x.t \in {"number", "NaN", "Infinity", "-Infinity"} -> x
    [] x.t = "null" -> Num(0)
    [] OTHER -> NaN

Sign(x) ==
  CASE x.t = "Infinity" -> 1
    [] x.t = "-Infinity" -> 0 - 1
    [] x.t = "number" -> IF x.v > 0 THEN 1 ELSE IF x.v < 0 THEN 0 - 1 ELSE 0

(* width * height of line 26 *)
Mul(a, b) ==
  LET x == ToNumber(a)
      y == ToNumber(b)
  IN IF x.t = "NaN" \/ y.t = "NaN" THEN NaN
     ELSE IF x.t = "number" /\ y.t = "number" THEN Num(x.v * y.v)
     ELSE IF Sign(x) * Sign(y) = 0 THEN NaN
     ELSE IF Sign(x) * Sign(y) > 0 THEN Infinity ELSE NegInfinity

(* the arrow function of line 26: it closes over the parameters, not the fields *)
Rectangle(width, height) ==
  [proto |-> "Rectangle",
   props |-> << <<"width", width>>,
                <<"height", height>>,
                <<"getArea", [t |-> "function", width |-> width, height |-> height]>> >>]

Has(obj, key) == \E i \in 1..Len(obj.props) : obj.props[i][1] = key

Prop(obj, key) ==
  IF Has(obj, key)
  THEN obj.props[CHOOSE i \in 1..Len(obj.props) : obj.props[i][1] = key][2]
  ELSE Undefined

getArea(obj) == LET f == Prop(obj, "getArea") IN Mul(f.width, f.height)

DigitChar(d) == SubSeq("0123456789", d + 1, d + 1)

RECURSIVE NatToString(_)
NatToString(n) ==
  IF n < 10 THEN DigitChar(n) ELSE NatToString(n \div 10) \o DigitChar(n % 10)

NumberToString(n) == IF n < 0 THEN "-" \o NatToString(0 - n) ELSE NatToString(n)

Quote(s) == "\"" \o s \o "\""

(* JSON.stringify leaves out the properties whose value is undefined or a function *)
Serializable(v) == v.t \notin {"undefined", "function"}

(* JSON.stringify of a property value; a number that is not finite is written null *)
SerializeValue(v) ==
  CASE v.t = "number" -> NumberToString(v.v)
    [] v.t = "string" -> Quote(v.chars)
    [] OTHER -> "null"

RECURSIVE SerializeProps(_, _)
SerializeProps(props, first) ==
  IF props = <<>> THEN ""
  ELSE LET p == Head(props)
       IN IF ~Serializable(p[2]) THEN SerializeProps(Tail(props), first)
          ELSE (IF first THEN "" ELSE ",") \o Quote(p[1]) \o ":" \o SerializeValue(p[2])
                 \o SerializeProps(Tail(props), FALSE)

JSONstringify(obj) == "{" \o SerializeProps(obj.props, TRUE) \o "}"

getJSON(obj) == JSONstringify(obj)

IsDigit(c) == \E d \in 0..9 : DigitChar(d) = c

DigitVal(c) == CHOOSE d \in 0..9 : DigitChar(d) = c

RECURSIVE ParseNat(_, _)
ParseNat(s, acc) ==
  IF s # "" /\ IsDigit(Head(s))
  THEN ParseNat(Tail(s), 10 * acc + DigitVal(Head(s)))
  ELSE [value |-> acc, rest |-> s]

ParseValue(s) ==
  IF Len(s) >= 4 /\ SubSeq(s, 1, 4) = "null"
  THEN [value |-> Null, rest |-> SubSeq(s, 5, Len(s))]
  ELSE IF Head(s) = "-"
  THEN LET r == ParseNat(Tail(s), 0) IN [value |-> Num(0 - r.value), rest |-> r.rest]
  ELSE LET r == ParseNat(s, 0) IN [value |-> Num(r.value), rest |-> r.rest]

RECURSIVE ParseKey(_, _)
ParseKey(s, acc) ==
  IF Head(s) = "\"" THEN [value |-> acc, rest |-> Tail(s)]
  ELSE ParseKey(Tail(s), acc \o Head(s))

RECURSIVE ParseMembers(_, _)
ParseMembers(s, props) ==
  IF Head(s) = "}" THEN props
  ELSE LET s1 == IF Head(s) = "," THEN Tail(s) ELSE s
           k == ParseKey(Tail(s1), "")
           v == ParseValue(Tail(k.rest))
       IN ParseMembers(v.rest, Append(props, <<k.value, v.value>>))

(* JSON.parse of the text of a flat object of numbers and nulls *)
JSONparse(text) == [proto |-> "Object", props |-> ParseMembers(Tail(text), <<>>)]

ObjectValues(obj) == [i \in 1..Len(obj.props) |-> obj.props[i][2]]

ObjectKeys(obj) == [i \in 1..Len(obj.props) |-> Str(obj.props[i][1])]

Arg(values, i) == IF i <= Len(values) THEN values[i] ELSE Undefined

RectanglePrototype == [constructor |-> "Rectangle"]

(* new proto.constructor(...values): missing arguments are undefined, extra ones unused *)
New(constructor, values) ==
  CASE constructor = "Rectangle" -> Rectangle(Arg(values, 1), Arg(values, 2))

(* fromJSON with Object.keys in place of Object.values *)
fromJSON_keys(proto, json) ==
  LET obj == JSONparse(json)
      values == ObjectKeys(obj)
  IN New(proto.constructor, values)

fromJSON(proto, json) ==
  LET obj == JSONparse(json)
      values == ObjectValues(obj)
  IN New(proto.constructor, values)

(* JSON texts handed to fromJSON directly, each with the values it holds in
   the order of its keys *)
Texts ==
  { [json |-> "{\"height\":1,\"width\":2}", values |-> <<Num(1), Num(2)>>],
    [json |-> "{\"radius\":10}", values |-> <<Num(10)>>],
    [json |-> "{\"a\":-3,\"b\":null,\"c\":120}", values |-> <<Num(0 - 3), Null, Num(120)>>],
    [json |-> "{}", values |-> <<>>] }

NoCall == [op |-> "none", json |-> "", args |-> <<>>]

InitJSON == heap = <<>> /\ last = NoCall

(* const r = new Rectangle(w, h) *)
NewRectangle(w, h) ==
  /\ last.op = "none"
  /\ heap' = ("r" :> Rectangle(w, h))
  /\ last' = [op |-> "Rectangle", json |-> "", args |-> <<w, h>>]

(* const json = getJSON(r) *)
GetJSON ==
  /\ last.op = "Rectangle"
  /\ last' = [last EXCEPT !.op = "getJSON", !.json = getJSON(heap["r"])]
  /\ UNCHANGED heap

(* const o = fromJSON(Rectangle.prototype, json) *)
FromJSON ==
  /\ last.op = "getJSON"
  /\ heap' = ("o" :> fromJSON(RectanglePrototype, last.json)) @@ heap
  /\ last' = [last EXCEPT !.op = "fromJSON"]

(* const o = fromJSON(Rectangle.prototype, text) on a text not made by getJSON *)
FromJSONText(text) ==
  /\ last.op = "none"
  /\ heap' = ("o" :> fromJSON(RectanglePrototype, text.json))
  /\ last' = [op |-> "fromJSON", json |-> text.json, args |-> text.values]

NextJSON ==
  \/ \E w \in JSNumbers : \E h \in JSNumbers : NewRectangle(w, h)
  \/ GetJSON
  \/ FromJSON
  \/ \E text \in Texts : FromJSONText(text)

SpecJSON == InitJSON /\ [][NextJSON]_vars

RoundTrip == last.op = "fromJSON" /\ "r" \in DOMAIN heap

Finite(x) == x.t = "number"

(* C16 as stated: for every width w and height h, the rectangle rebuilt by
   fromJSON from getJSON(new Rectangle(w, h)) is a Rectangle of width w and
   height h whose getArea() is w * h. *)
C16_Original ==
  RoundTrip =>
    /\ heap["o"].proto = "Rectangle"
    /\ Prop(heap["o"], "width") = last.args[1]
    /\ Prop(heap["o"], "height") = last.args[2]
    /\ getArea(heap["o"]) = Mul(last.args[1], last.args[2])

(* C16: for every finite width w and height h, the rectangle rebuilt by
   fromJSON from getJSON(new Rectangle(w, h)) is a Rectangle of width w and
   height h whose getArea() is w * h and equals that of the first rectangle;
   a width or height that is NaN or infinite comes back as null.  fromJSON
   gives the constructor the values of the parsed object by position, in the
   order of the keys in the text and whatever the keys are named. *)
C16_RoundTripFinite ==
  /\ RoundTrip =>
       /\ heap["o"].proto = "Rectangle"
       /\ \A i \in 1..2 :
            Prop(heap["o"], <<"width", "height">>[i]) =
              IF Finite(last.args[i]) THEN last.args[i] ELSE Null
       /\ (Finite(last.args[1]) /\ Finite(last.args[2])) =>
            /\ getArea(heap["o"]) = Num(last.args[1].v * last.args[2].v)
            /\ getArea(heap["o"]) = getArea(heap["r"])
            /\ heap["o"] = heap["r"]
  /\ (last.op = "fromJSON" /\ "r" \notin DOMAIN heap) =>
       /\ heap["o"].proto = "Rectangle"
       /\ Prop(heap["o"], "width") = Arg(last.args, 1)
       /\ Prop(heap["o"], "height") = Arg(last.args, 2)
       /\ getArea(heap["o"]) = Mul(Arg(last.args, 1), Arg(last.args, 2))

C16_Witness ==
  /\ RoundTrip
  /\ last.args = <<Num(0 - 12), Num(10)>>
  /\ last.json = "{\"width\":-12,\"height\":10}"
  /\ getArea(heap["o"]) = Num(0 - 120)

TypeOK ==
  /\ ROOT \in DOMAIN heap
  /\ \A k \in DOMAIN heap : Get(heap, k, "orderChecker") \in 0..5

=============================================================================
